---- MODULE Spec2Model ----
(***************************************************************************)
(* A model of the client-side API request layer of lm-api-testing          *)
(* (frontend utils/api.js): the ApiClient with its timeout timer, the      *)
(* process-wide response cache, the ApiError normalisation and the         *)
(* convenience operations built on it, with its callers: the validators,  *)
(* the useApiForm hook, the Email and Event dialogs and the forms of       *)
(* App.js.                                                                 *)
(*                                                                         *)
(* Every asynchronous call (get, post and the convenience operations) is   *)
(* one entry of `call`.  JavaScript runs each synchronous stretch of code  *)
(* to completion, so one action of the model is one such stretch: from the *)
(* call (or from the settling of an awaited promise) up to the next await  *)
(* or to the return/throw that settles the call.                           *)
(***************************************************************************)
EXTENDS Integers, Sequences, FiniteSets, TLC

(* ----------------------------- bounds ---------------------------------- *)

\* number of calls made in one behaviour of the cache layer
MaxCalls == 2
\* number of overlapping getAccount calls in one behaviour
MaxOverlap == 3
\* the clock (Date.now()) runs from 0 to MaxTime
MaxTime == 2
\* configured cache TTLs range over 1..MaxTTL
MaxTTL == 2
\* number of calls made in one behaviour in which the server's answers vary
MaxRequests == 1
\* the statuses given to the ApiError constructor range over -1..MaxStatus
MaxStatus == 600
\* an email field holds at most MaxLen characters
MaxLen == 6
\* a JSON field holds at most MaxTokens tokens
MaxTokens == 3
\* number of form submissions in one behaviour
MaxSubmits == 2
\* the debounce delay of useApiForm ranges over 1..MaxDebounce
MaxDebounce == 2
\* with forms, the clock runs from 0 to MaxFormTime
MaxFormTime == 4
\* a variable of process.env holds at most MaxEnvLen characters
MaxEnvLen == 2

\* the call ids of the three families of behaviours, and all of them
CallIds == 1..MaxCalls
OverlapIds == 1..MaxOverlap
RequestIds == 1..MaxRequests
AllIds == CallIds \cup OverlapIds \cup RequestIds
TTLs == 1..MaxTTL

(* --------------------------- JSON values ------------------------------- *)

\* A JSON object is the set of its <<field, value>> pairs.
JObj(fields) == [t |-> "object", v |-> fields]
JNull == [t |-> "null", v |-> {}]
JNum == [t |-> "number", v |-> {}]
JArr == [t |-> "array", v |-> {}]
\* JavaScript's undefined (a missing details argument, a raw error's status)
JUndef == [t |-> "undefined", v |-> {}]
\* a value JSON.stringify cannot serialise (a cyclic structure)
JCyclic == [t |-> "cyclic", v |-> {}]
EmptyObj == JObj({})

\* response.json(): the body text parsed, or a SyntaxError
JsonParse(text) ==
  CASE text = "{\"message\":\"slow down\"}" ->
         [ok |-> TRUE, value |-> JObj({<<"message", "slow down">>})]
    [] text = "{\"status\":\"error\"}" ->
         [ok |-> TRUE, value |-> JObj({<<"status", "error">>})]
    [] text = "{\"id\":\"1\"}" -> [ok |-> TRUE, value |-> JObj({<<"id", "1">>})]
    [] text = "{\"id\":\"2\"}" -> [ok |-> TRUE, value |-> JObj({<<"id", "2">>})]
    [] text = "{}" -> [ok |-> TRUE, value |-> EmptyObj]
    [] text = "null" -> [ok |-> TRUE, value |-> JNull]
    [] text = "5" -> [ok |-> TRUE, value |-> JNum]
    [] OTHER -> [ok |-> FALSE, value |-> JUndef]

\* the members of an object as JSON text, separated by commas (a set keeps
\* no insertion order: the members come in a fixed order of their own)
RECURSIVE Members(_)
Members(pairs) ==
  IF pairs = {} THEN ""
  ELSE LET p == CHOOSE q \in pairs : TRUE
           rest == pairs \ {p}
       IN "\"" \o p[1] \o "\":\"" \o p[2] \o "\""
            \o (IF rest = {} THEN "" ELSE "," \o Members(rest))

\* JSON.stringify(body): the text, or a TypeError for a cyclic structure
JsonStringify(value) ==
  IF value.t = "cyclic" THEN [ok |-> FALSE, text |-> ""]
  ELSE IF value.t = "null" THEN [ok |-> TRUE, text |-> "null"]
  ELSE [ok |-> TRUE, text |-> "{" \o Members(value.v) \o "}"]

(* ------------------------------ errors --------------------------------- *)

\* new ApiError(message, status = 0, details = {})
ApiError(message, status, details) ==
  [name |-> "ApiError", message |-> message, status |-> status, details |-> details]

\* an exception that is not an ApiError: it has no status and no details
RawError(name, message) ==
  [name |-> name, message |-> message, status |-> -1, details |-> JUndef]

NoError == [name |-> "", message |-> "", status |-> -1, details |-> JUndef]

(* -------------------- what a validator call did ------------------------ *)

\* the validator returned: a string (value) or a parsed JSON value (json)
Returns(value, json) == [threw |-> FALSE, message |-> "", value |-> value, json |-> json]

\* the validator threw new Error(message)
Throws(message) == [threw |-> TRUE, message |-> message, value |-> "", json |-> JUndef]

\* no validator has been called
NoResult == [threw |-> FALSE, message |-> "", value |-> "", json |-> JUndef]

(* ------------------------------ state ---------------------------------- *)

VARIABLES
  now,        \* Date.now()
  CACHE_TTL,  \* the configured cache TTL, fixed at module load
  timeout,    \* this.timeout of the global apiClient
  cache,      \* the module-level Map: cache key -> {data, timestamp}
  call,       \* the calls of get/post: call id -> its record
  stores,     \* history: cache key -> the stores to it that no clearCache has
              \* removed since, oldest first, each <<data, time of the store,
              \* time the request was issued, url of the request>>
  lastClear,  \* history: the last observed clearCache: its argument, the gets
              \* in flight whose key it cleared, and the
              \* cache before and after it
  apiError,   \* the ApiError a caller constructed last with `new ApiError(...)`
  field,      \* the text typed into a form field, as the sequence of its pieces
  validated,  \* the last call of a validator: its input and what it did
  form,       \* the form in use: the component that holds it and its formData
  validationErrors,  \* the dialog's validationErrors: field -> message
  hook,       \* the dialog's useApiForm: its state and its debounceTimer ref
  timers,     \* the timers useApiForm.submit has set, one per call of submit,
              \* in the order of the calls
  app,        \* App.js: its state and the requests handleApiCall has issued
  env,        \* process.env: REACT_APP_API_TIMEOUT and REACT_APP_CACHE_TTL
  loaded,     \* whether the module has been loaded (its constants evaluated)
  useApi,     \* a component's useApi: loading, error, data, abortController
  executes    \* the calls of useApi's execute, in the order they were made

\* the state of the forms
forms == <<form, validationErrors, hook, timers, app>>

\* the environment the module is loaded in
settings == <<env, loaded>>

\* the state of a component that calls the API through useApi
hooks == <<useApi, executes>>

\* the state outside the forms and the validators
others == <<settings, hooks>>

\* the state outside the ApiClient: what its callers hold
callers == <<apiError, field, validated, forms, others>>

\* the state of the ApiClient and of its calls
client == <<now, CACHE_TTL, timeout, cache, call, stores, lastClear>>

vars == <<now, CACHE_TTL, timeout, cache, call, stores, lastClear, callers>>

\* configured request timeouts
Timeouts == {1}

\* the base URL of the global apiClient, and the one of another ApiClient
API_BASE_URL == "http://127.0.0.1:5000"
BaseUrls == {API_BASE_URL, "https://api.yourdomain.com"}

\* The endpoints of the convenience surface.
HealthEndpoint == "/"
AccountEndpoint == "/api/account"
ContactsEndpoint(limit, offset) ==
  "/api/contacts?limit=" \o ToString(limit) \o "&offset=" \o ToString(offset)
EmailEndpoint == "/api/send-test-email"
EventEndpoint == "/api/send-custom-event"

\* what the server may answer
Statuses == {200, 429, 500}
SuccessBodies == {"{\"id\":\"1\"}", "{\"id\":\"2\"}", "OK"}
ErrorBodies == {"{\"message\":\"slow down\"}", "{\"status\":\"error\"}", "null",
                "<html>Bad Gateway</html>"}
\* what callers post
PostBodies == {JObj({<<"to", "a@b.com">>}), JCyclic}
\* the arguments given to clearCache: null (the default) or a string
NoPattern == [null |-> TRUE, s |-> ""]
Pattern(s) == [null |-> FALSE, s |-> s]
Patterns == {NoPattern} \cup {Pattern(s) : s \in {"", "account", "GET:/", "health"}}

\* a call that has not been made yet
NewCall ==
  [op |-> "none", api |-> "", endpoint |-> "", useCache |-> FALSE, pc |-> "idle",
   \* this.baseUrl of the client called, and the url request fetches
   baseUrl |-> "", url |-> "",
   \* the locals of request: the timer, the controller, the network call
   timer |-> "none", deadline |-> 0, issuedAt |-> 0, aborted |-> FALSE,
   net |-> "none", method |-> "", body |-> "", headers |-> <<>>, status |-> 0,
   \* how the call settled
   settled |-> "pending", data |-> JUndef, error |-> NoError,
   \* history: the headers the caller gave in options, the body text received,
   \* and what request threw
   callerHeaders |-> <<>>, received |-> "", thrown |-> NoError,
   \* history: the network requests issued, what the call found in the cache,
   \* whether it stored, and the values stored before it within the TTL window
   \* (all of them, and the last one)
   nreq |-> 0, hit |-> FALSE, seenAge |-> -1, stored |-> FALSE,
   prior |-> {}, priorLast |-> {},
   \* history: the url the value served from the cache was fetched from
   from |-> ""]

EmptyCache == [k \in {} |-> 0]

\* the callers have done nothing yet
NoForm == [kind |-> "", data |-> <<>>]

\* useApiForm(submitFunction, debounceMs) on its first render
NewHook(debounceMs) ==
  [isSubmitting |-> FALSE, error |-> "", success |-> FALSE,
   debounceTimer |-> 0, debounceMs |-> debounceMs]

\* App() on its first render, a dialog opened
NewApp == [loading |-> FALSE, error |-> "", response |-> "", dialog |-> TRUE,
           requests |-> <<>>]

\* no form is in use
InitForms ==
  /\ form = NoForm
  /\ validationErrors = <<>>
  /\ hook = NewHook(MaxDebounce)
  /\ timers = <<>>
  /\ app = NewApp

\* no validator has been called and no ApiError built
InitValidators ==
  /\ apiError = NoError
  /\ field = <<>>
  /\ validated = [fn |-> "", input |-> <<>>, result |-> NoResult]

\* a variable of process.env: not set, or set to a text
Unset == [set |-> FALSE, text |-> <<>>]

Configured(text) == [set |-> TRUE, text |-> text]

\* the decimal digits of a natural number, as the pieces of a text
RECURSIVE DigitsOf(_)
DigitsOf(n) ==
  IF n < 10 THEN <<ToString(n)>>
  ELSE DigitsOf(n \div 10) \o <<ToString(n % 10)>>

\* the module was loaded in an environment that configures the timeout and
\* the TTL in use
InitSettings ==
  /\ env = [REACT_APP_API_TIMEOUT |-> Configured(DigitsOf(timeout)),
            REACT_APP_CACHE_TTL |-> Configured(DigitsOf(CACHE_TTL))]
  /\ loaded = TRUE

\* useApi() on its first render
NewUseApi == [loading |-> FALSE, error |-> "", data |-> JNull, abortController |-> 0]

InitHooks ==
  /\ useApi = NewUseApi
  /\ executes = <<>>

InitOthers == InitSettings /\ InitHooks

InitCallers == InitValidators /\ InitForms /\ InitOthers

\* the module is loaded and apiClient constructed
InitClient ==
  /\ now = 0
  /\ CACHE_TTL \in TTLs
  /\ timeout \in Timeouts
  /\ cache = EmptyCache
  /\ call = [c \in AllIds |-> NewCall]
  /\ stores = EmptyCache
  /\ lastClear = [done |-> FALSE, pattern |-> NoPattern,
                  before |-> EmptyCache, after |-> EmptyCache, inflight |-> {}]

Init == InitClient /\ InitCallers

(* --------------------------- the cache Map ----------------------------- *)

\* const cacheKey = `GET:${endpoint}`
CacheKey(endpoint) == "GET:" \o endpoint

\* cache.has(key)
CacheHas(key) == key \in DOMAIN cache

\* cache.set(key, entry)
CacheSet(m, key, entry) ==
  [k \in DOMAIN m \cup {key} |-> IF k = key THEN entry ELSE m[k]]

\* a delete that is forgotten
CacheDelete_Forgotten(m, key) == m

\* cache.delete(key)
CacheDelete(m, key) == [k \in DOMAIN m \ {key} |-> m[k]]

\* a freshness test that is off by one
IsFresh_OffByOne(entry, t) == t - entry.timestamp < CACHE_TTL - 1

\* Date.now() - timestamp < CACHE_TTL
IsFresh(entry, t) == t - entry.timestamp < CACHE_TTL

\* String.prototype.includes
Includes(key, pattern) ==
  \E i \in 1..(Len(key) - Len(pattern) + 1) :
     SubSeq(key, i, i + Len(pattern) - 1) = pattern

\* if (pattern): null and the empty string are falsy
Truthy(pattern) == ~pattern.null /\ pattern.s # ""

\* a clearCache whose substring test is inverted
ClearedCache_Inverted(m, pattern) ==
  IF Truthy(pattern)
  THEN [k \in {j \in DOMAIN m : Includes(j, pattern.s)} |-> m[k]]
  ELSE EmptyCache

\* clearCache(pattern = null): the Map afterwards
ClearedCache(m, pattern) ==
  IF Truthy(pattern)
  THEN [k \in {j \in DOMAIN m : ~Includes(j, pattern.s)} |-> m[k]]
  ELSE EmptyCache

(* ------------------------ request: error paths ------------------------- *)

\* response.ok
ResponseOk(status) == status \in 200..299

\* errorData.message: a property read throws on null and undefined
ReadMessage(errorData) ==
  IF errorData.t \in {"null", "undefined"}
  THEN [threw |-> TRUE, value |-> ""]
  ELSE IF errorData.t = "object" /\ \E p \in errorData.v : p[1] = "message"
  THEN [threw |-> FALSE, value |-> (CHOOSE p \in errorData.v : p[1] = "message")[2]]
  ELSE [threw |-> FALSE, value |-> ""]

\* `HTTP error! status: ${response.status}`
GenericMessage(status) == "HTTP error! status: " \o ToString(status)

\* throw new ApiError(errorData.message || `HTTP error! ...`, response.status,
\* errorData): what is thrown inside the try block
HttpError(status, errorData) ==
  LET m == ReadMessage(errorData)
  IN IF m.threw
     THEN RawError("TypeError", "Cannot read properties of null (reading 'message')")
     ELSE ApiError(IF m.value # "" THEN m.value ELSE GenericMessage(status),
                   status, errorData)

\* response.json() without the catch: a body that is not JSON yields nothing
ErrorData_NoCatch(text) == JsonParse(text).value

\* response.json().catch(() => ({})) on the body text
ErrorData(text) ==
  LET parsed == JsonParse(text) IN IF parsed.ok THEN parsed.value ELSE EmptyObj

\* a catch block without the AbortError case
CatchError_NoAbortCase(error) ==
  IF error.name = "ApiError" THEN error
  ELSE ApiError("Network error: Please check your connection", 0,
                JObj({<<"originalError", error.message>>}))

\* a catch block that drops the message of the error it wraps
CatchError_NoOriginal(error) ==
  IF error.name = "AbortError" THEN ApiError("Request timeout", 408, EmptyObj)
  ELSE IF error.name = "ApiError" THEN error
  ELSE ApiError("Network error: Please check your connection", 0, EmptyObj)

\* the catch block of request: what request finally throws for `error`
CatchError(error) ==
  IF error.name = "AbortError" THEN ApiError("Request timeout", 408, EmptyObj)
  ELSE IF error.name = "ApiError" THEN error
  ELSE ApiError("Network error: Please check your connection", 0,
                JObj({<<"originalError", error.message>>}))

(* --------------------------- ApiError getters -------------------------- *)

isNetworkError(e) == e.status = 0
\* a client-error test that takes 500 in
isClientError_Inclusive(e) == e.status >= 400 /\ e.status <= 500

isClientError(e) == e.status >= 400 /\ e.status < 500
isServerError(e) == e.status >= 500
isTimeout(e) == e.status = 408
isRateLimit(e) == e.status = 429

(* ------------------------- the steps of a call ------------------------- *)

\* calls are made in the order of their ids
CanStart(c) ==
  /\ call[c].op = "none"
  /\ IF c = 1 THEN TRUE ELSE call[c - 1].op # "none"

\* the stores to `key` that no clearCache has removed since, oldest first
StoresTo(key) == IF key \in DOMAIN stores THEN stores[key] ELSE <<>>

\* those of them made less than a TTL ago
InWindow(key) ==
  {i \in 1..Len(StoresTo(key)) : now - StoresTo(key)[i][2] < CACHE_TTL}

\* the record of a call as it is entered
Entered(op, api, endpoint, useCache) ==
  LET past == StoresTo(CacheKey(endpoint))
      seen == IF op = "get" THEN InWindow(CacheKey(endpoint)) ELSE {}
  IN [NewCall EXCEPT !.op = op, !.api = api, !.endpoint = endpoint,
                     !.useCache = useCache, !.baseUrl = API_BASE_URL,
                     !.prior = {past[i][1] : i \in seen},
                     !.priorLast = {past[i][1] : i \in seen \cap {Len(past)}}]

\* the headers request puts first into config.headers
DefaultHeaders == [h \in {"Content-Type"} |-> "application/json"]

\* an object without properties
NoHeaders == [h \in {} |-> ""]

\* { ...a, ...b }: the properties of a, then those of b over them
Spread(a, b) ==
  [k \in DOMAIN a \cup DOMAIN b |-> IF k \in DOMAIN b THEN b[k] ELSE a[k]]

\* ...options.headers: an absent property spreads to nothing
OptionHeaders(options) ==
  IF "headers" \in DOMAIN options THEN options.headers ELSE NoHeaders

\* const config = { headers: { 'Content-Type': ..., ...options.headers },
\*                  signal: controller.signal, ...options }
Config(options) ==
  Spread([headers |-> Spread(DefaultHeaders, OptionHeaders(options)),
          signal |-> "controller.signal"],
         options)

\* request, up to `await fetch(url, config)`: the timer is set and the
\* network call issued with config (fetch sends GET and no body by default)
RequestStart(rec, options) ==
  LET config == Config(options)
  IN [rec EXCEPT !.pc = "fetch", !.timer = "pending", !.deadline = now + timeout,
                 !.issuedAt = now, !.net = "inflight",
                 !.url = rec.baseUrl \o rec.endpoint,
                 !.method = IF "method" \in DOMAIN config THEN config.method ELSE "GET",
                 !.body = IF "body" \in DOMAIN config THEN config.body ELSE "",
                 !.headers = config.headers,
                 !.callerHeaders = OptionHeaders(options),
                 !.nreq = @ + 1]

\* a clearTimeout that does nothing
ClearTimeout_Never(rec) == rec

\* clearTimeout(timeoutId)
ClearTimeout(rec) ==
  IF rec.timer = "pending" THEN [rec EXCEPT !.timer = "cleared", !.deadline = 0]
  ELSE rec

\* the call returns `data` to its caller; its locals are gone
Returned(rec, data) ==
  [rec EXCEPT !.pc = "done", !.settled = "returned", !.data = data,
              !.deadline = 0, !.issuedAt = 0]

\* the call raises `error` to its caller; its locals are gone
Raised(rec, error) ==
  [rec EXCEPT !.pc = "done", !.settled = "raised", !.error = error,
              !.deadline = 0, !.issuedAt = 0]

\* an entry stamped with the time the request was issued
Entry_AtIssue(rec, data) == [data |-> data, timestamp |-> rec.issuedAt]

\* { data, timestamp: Date.now() }
Entry(rec, data) == [data |-> data, timestamp |-> now]

\* the url the entry of `key` was fetched from
FetchedFrom(key) ==
  IF StoresTo(key) = <<>> THEN "" ELSE StoresTo(key)[Len(StoresTo(key))][4]

\* get on the client with rec.baseUrl, from its call to the cached return
\* or to the await inside request
GetOn(c, rec) ==
  LET cacheKey == CacheKey(rec.endpoint)
      useCache == rec.useCache
  IN /\ CanStart(c)
     /\ IF useCache /\ CacheHas(cacheKey)
        THEN LET seen == [rec EXCEPT !.seenAge = now - cache[cacheKey].timestamp,
                                     !.from = FetchedFrom(cacheKey)]
             IN IF IsFresh(cache[cacheKey], now)
                THEN /\ call' = [call EXCEPT ![c] =
                            [Returned(seen, cache[cacheKey].data) EXCEPT !.hit = TRUE]]
                     /\ cache' = cache
                ELSE /\ cache' = CacheDelete(cache, cacheKey)
                     /\ call' = [call EXCEPT ![c] = RequestStart(seen, [method |-> "GET"])]
        ELSE /\ cache' = cache
             /\ call' = [call EXCEPT ![c] = RequestStart(rec, [method |-> "GET"])]
     /\ UNCHANGED <<callers, lastClear, now, CACHE_TTL, timeout, stores>>

\* apiClient.get(endpoint, useCache)
Get(c, api, endpoint, useCache) == GetOn(c, Entered("get", api, endpoint, useCache))

\* new ApiClient(baseUrl).get(endpoint, useCache)
ClientGet(c, baseUrl, endpoint, useCache) ==
  GetOn(c, [Entered("get", "get", endpoint, useCache) EXCEPT !.baseUrl = baseUrl])

\* request called by itself, from its call to `await fetch(url, config)`
Request(c, endpoint, options) ==
  /\ CanStart(c)
  /\ call' = [call EXCEPT ![c] =
       RequestStart(Entered("request", "request", endpoint, FALSE), options)]
  /\ UNCHANGED <<callers, lastClear, now, CACHE_TTL, timeout, cache, stores>>

\* the record of a post call, from its call to the await inside request
Posted(api, endpoint, body) ==
  LET rec == Entered("post", api, endpoint, FALSE)
      text == JsonStringify(body)
  IN IF text.ok THEN RequestStart(rec, [method |-> "POST", body |-> text.text])
     ELSE Raised(rec, RawError("TypeError", "Converting circular structure to JSON"))

\* post, from its call to the await inside request
Post(c, api, endpoint, body) ==
  /\ CanStart(c)
  /\ call' = [call EXCEPT ![c] = Posted(api, endpoint, body)]
  /\ UNCHANGED <<callers, lastClear, now, CACHE_TTL, timeout, cache, stores>>

(* ------------------ useApiForm: the debounced submit ------------------- *)

\* the timer submit sets: the formData it will pass on (and the form's data
\* it was made from), the time of the call, when the timer is due, whether
\* it is pending, cleared, running its callback or done, the api call its
\* callback made and the promise submit returned
NewTimer(formData, source) ==
  [formData |-> formData, source |-> source, at |-> now,
   deadline |-> now + hook.debounceMs, state |-> "pending", firedAt |-> -1,
   callId |-> 0, promise |-> "pending"]

\* a clearTimeout that leaves the timer running
ClearDebounce_Never(timer) == timer

\* clearTimeout(debounceTimer.current): a timer that has fired is left alone
ClearDebounce(timer) ==
  IF timer.state = "pending" THEN [timer EXCEPT !.state = "cleared"] ELSE timer

\* submit(formData): the previous timer is cleared and a new one set
Submit(formData, source) ==
  LET cleared == IF hook.debounceTimer # 0
                 THEN [timers EXCEPT ![hook.debounceTimer] = ClearDebounce(@)]
                 ELSE timers
  IN /\ timers' = Append(cleared, NewTimer(formData, source))
     /\ hook' = [hook EXCEPT !.debounceTimer = Len(timers) + 1]

\* the message useApiForm shows for what submitFunction threw
SubmitErrorMessage(err) ==
  IF err.name = "ApiError" THEN err.message ELSE "Failed to submit form"

\* the timer callback after `await submitFunction(formData)`: the promise
\* of submit is settled and the hook's state set
Settled(h, rec) ==
  [h EXCEPT !.isSubmitting = FALSE,
            !.success = IF rec.settled = "returned" THEN TRUE ELSE @,
            !.error = IF rec.settled = "raised" THEN SubmitErrorMessage(rec.error) ELSE @]

\* the timers whose callback awaits call c
AwaitedBy(c) ==
  {i \in 1..Len(timers) : timers[i].state = "running" /\ timers[i].callId = c}

\* the message useApi shows for what apiFunction threw
ExecuteErrorMessage(err) ==
  IF err.name = "ApiError" THEN err.message ELSE "An unexpected error occurred"

\* execute after `await apiFunction(...args)`: try, catch and finally
Executed(h, rec) ==
  [h EXCEPT !.data = IF rec.settled = "returned" THEN rec.data
                     ELSE IF rec.error.name # "AbortError" THEN JNull ELSE @,
            !.error = IF rec.settled = "raised" /\ rec.error.name # "AbortError"
                      THEN ExecuteErrorMessage(rec.error) ELSE @,
            !.loading = FALSE,
            !.abortController = 0]

\* the execute calls that await call c
ExecutedBy(c) ==
  {i \in 1..Len(executes) : executes[i].state = "running" /\ executes[i].callId = c}

\* call c has settled as rec: the code that awaits it goes on
Resume(c, rec) ==
  IF AwaitedBy(c) # {}
  THEN LET i == CHOOSE j \in AwaitedBy(c) : TRUE
       IN /\ timers' = [timers EXCEPT ![i].state = "done",
                          ![i].promise = IF rec.settled = "returned"
                                         THEN "resolved" ELSE "rejected"]
          /\ hook' = Settled(hook, rec)
          /\ UNCHANGED <<apiError, field, validated, form, validationErrors, app, others>>
  ELSE IF ExecutedBy(c) # {}
  THEN LET i == CHOOSE j \in ExecutedBy(c) : TRUE
       IN /\ executes' = [executes EXCEPT ![i].state =
                            IF rec.settled = "returned" THEN "resolved" ELSE "rejected"]
          /\ useApi' = Executed(useApi, rec)
          /\ UNCHANGED <<apiError, field, validated, forms, settings>>
  ELSE UNCHANGED callers

\* a store that does not look at the method or at useCache
StoresResult_Always(rec) == TRUE

\* a store only if no response of a request issued later is stored
StoresResult_IfNewer(rec) ==
  /\ rec.op = "get" /\ rec.useCache
  /\ LET past == StoresTo(CacheKey(rec.endpoint))
     IN  past = <<>> \/ past[Len(past)][3] <= rec.issuedAt

\* whether get writes the data request returned to the cache
StoresResult(rec) == rec.op = "get" /\ rec.useCache

\* request returned `data`: get stores it when useCache, then returns it
Return(c, rec, data) ==
  /\ IF StoresResult(rec)
     THEN LET key == CacheKey(rec.endpoint)
          IN /\ cache' = CacheSet(cache, key, Entry(rec, data))
             /\ stores' = CacheSet(stores, key,
                    Append(StoresTo(key), <<data, now, rec.issuedAt, rec.url>>))
             /\ call' = [call EXCEPT ![c] = [Returned(rec, data) EXCEPT !.stored = TRUE]]
     ELSE /\ cache' = cache
          /\ stores' = stores
          /\ call' = [call EXCEPT ![c] = Returned(rec, data)]
  /\ Resume(c, Returned(rec, data))

\* a get that writes its entry before it looks at the outcome
StoresFailure_Always(rec) == rec.op = "get" /\ rec.useCache

\* whether get writes to the cache when request raised
StoresFailure(rec) == FALSE

\* what get and post throw when request threw `error`: the await is in no
\* try block, so the rejection passes through
Rethrown(error) == error

\* a rejection that get and post answer with a second attempt
Raise_Retry(c, rec, error) ==
  /\ cache' = cache
  /\ stores' = stores
  /\ UNCHANGED callers
  /\ call' = [call EXCEPT ![c] =
       IF rec.nreq < 2
       THEN RequestStart(rec, [method |-> rec.method])
       ELSE [Raised(rec, Rethrown(error)) EXCEPT !.thrown = error]]

\* request raised `error`: get and post let it through
Raise(c, rec, error) ==
  /\ cache' = IF StoresFailure(rec)
              THEN CacheSet(cache, CacheKey(rec.endpoint), Entry(rec, JUndef))
              ELSE cache
  /\ stores' = stores
  /\ call' = [call EXCEPT ![c] =
       [Raised(rec, Rethrown(error)) EXCEPT !.thrown = error]]
  /\ Resume(c, Raised(rec, Rethrown(error)))

\* fetch resolves with the response's status and headers; the timer is
\* cleared and the body awaited
FetchResolve(c, status) ==
  /\ call[c].pc = "fetch"
  /\ call' = [call EXCEPT ![c] =
       [ClearTimeout(@) EXCEPT !.pc = "body", !.net = "headers", !.status = status]]
  /\ UNCHANGED <<callers, lastClear, now, CACHE_TTL, timeout, cache, stores>>

\* fetch rejects: no HTTP response (connection refused, DNS, ...)
FetchReject(c) ==
  /\ call[c].pc = "fetch"
  /\ Raise(c, [ClearTimeout(call[c]) EXCEPT !.net = "failed"],
           CatchError(RawError("TypeError", "Failed to fetch")))
  /\ UNCHANGED <<lastClear, now, CACHE_TTL, timeout>>

\* the timeout timer fires: controller.abort() makes fetch reject
TimerFire(c) ==
  /\ call[c].timer = "pending"
  /\ now >= call[c].deadline
  /\ Raise(c, [call[c] EXCEPT !.timer = "fired", !.aborted = TRUE, !.net = "aborted"],
           CatchError(RawError("AbortError", "The user aborted a request.")))
  /\ UNCHANGED <<lastClear, now, CACHE_TTL, timeout>>

\* the body has arrived whole: response.json() parses it
BodyComplete(c, text) ==
  LET rec == [call[c] EXCEPT !.net = "complete", !.received = text]
      parsed == JsonParse(text)
  IN /\ call[c].pc = "body"
     /\ IF ResponseOk(call[c].status)
        THEN /\ text \in SuccessBodies
             /\ IF parsed.ok THEN Return(c, rec, parsed.value)
                ELSE Raise(c, rec, CatchError(RawError("SyntaxError",
                                            "Unexpected token O in JSON at position 0")))
        ELSE /\ text \in ErrorBodies
             /\ Raise(c, rec, CatchError(HttpError(call[c].status, ErrorData(text))))
     /\ UNCHANGED <<lastClear, now, CACHE_TTL, timeout>>

\* the connection drops while the body is read: response.json() rejects
BodyFail(c) ==
  LET rec == [call[c] EXCEPT !.net = "failed"]
  IN /\ call[c].pc = "body"
     /\ IF ResponseOk(call[c].status)
        THEN Raise(c, rec, CatchError(RawError("TypeError", "network error")))
        ELSE Raise(c, rec, CatchError(HttpError(call[c].status, EmptyObj)))
     /\ UNCHANGED <<lastClear, now, CACHE_TTL, timeout>>

\* apiClient.clearCache(pattern)
ClearCache(pattern) ==
  /\ cache' = ClearedCache(cache, pattern)
  /\ stores' = [k \in DOMAIN stores \ (DOMAIN cache \ DOMAIN cache') |-> stores[k]]
  /\ UNCHANGED <<callers, lastClear, now, CACHE_TTL, timeout, call>>

\* whether clearCache(pattern) deletes the entry of `key`
Clears(pattern, key) == Truthy(pattern) => Includes(key, pattern.s)

\* the cacheable gets that are waiting for their request while
\* clearCache(pattern) runs, and whose key it clears
InFlightGets(pattern) ==
  {c \in AllIds : /\ call[c].op = "get" /\ call[c].useCache
                  /\ call[c].pc \in {"fetch", "body"}
                  /\ Clears(pattern, CacheKey(call[c].endpoint))}

\* apiClient.clearCache(pattern), with the call and its effect recorded
ObservedClearCache(pattern) ==
  /\ cache' = ClearedCache(cache, pattern)
  /\ stores' = [k \in DOMAIN stores \ (DOMAIN cache \ DOMAIN cache') |-> stores[k]]
  /\ lastClear' = [done |-> TRUE, pattern |-> pattern,
                   before |-> cache, after |-> cache',
                   inflight |-> InFlightGets(pattern)]
  /\ UNCHANGED <<callers, now, CACHE_TTL, timeout, call>>

\* no timer is due: neither the timeout of a request nor a debounce timer
NoTimerDue ==
  /\ \A c \in AllIds : call[c].timer = "pending" => now < call[c].deadline
  /\ \A i \in 1..Len(timers) : timers[i].state = "pending" => now < timers[i].deadline

\* time passes; a timer that is due fires before it does
Tick ==
  /\ now < MaxTime
  /\ NoTimerDue
  /\ now' = now + 1
  /\ UNCHANGED <<callers, lastClear, CACHE_TTL, timeout, cache, call, stores>>

(* ----------------------- the convenience surface ----------------------- *)

\* a getContacts that leaves useCache at its default
getContacts_Cached(c, limit, offset) ==
  Get(c, "getContacts", ContactsEndpoint(limit, offset), TRUE)

healthCheck(c) == Get(c, "healthCheck", HealthEndpoint, TRUE)
getAccount(c) == Get(c, "getAccount", AccountEndpoint, TRUE)
getContacts(c, limit, offset) ==
  Get(c, "getContacts", ContactsEndpoint(limit, offset), FALSE)
sendEmail(c, emailData) == Post(c, "sendEmail", EmailEndpoint, emailData)
sendEvent(c, eventData) == Post(c, "sendEvent", EventEndpoint, eventData)

\* the calls made on apiClient itself
DirectGets == {<<ContactsEndpoint(5, 0), TRUE>>}
DirectPosts == {<<AccountEndpoint, JObj({})>>, <<AccountEndpoint, JCyclic>>}

(* ---------------- the cache layer: overlapping gets -------------------- *)

\* what the server answers in the behaviours of the cache layer
CacheBodies == {"{\"id\":\"1\"}", "{\"id\":\"2\"}"}
CachePatterns == {NoPattern, Pattern("account")}

Next ==
  \/ \E c \in CallIds : getAccount(c)
  \/ \E c \in CallIds : getContacts(c, 5, 0)
  \/ \E c \in CallIds, g \in DirectGets : Get(c, "get", g[1], g[2])
  \/ \E c \in CallIds, p \in DirectPosts : Post(c, "post", p[1], p[2])
  \/ \E c \in CallIds : FetchResolve(c, 200)
  \/ \E c \in CallIds : TimerFire(c)
  \/ \E c \in CallIds, text \in CacheBodies : BodyComplete(c, text)
  \/ \E pattern \in CachePatterns : ClearCache(pattern)
  \/ Tick

Spec == Init /\ [][Next]_vars

(* ------------------- overlapping getAccount calls ---------------------- *)

OverlapBodies == {"{\"id\":\"1\"}", "{\"id\":\"2\"}"}

NextOverlap ==
  \/ \E c \in OverlapIds : getAccount(c)
  \/ \E c \in OverlapIds : FetchResolve(c, 200)
  \/ \E c \in OverlapIds : FetchReject(c)
  \/ \E c \in OverlapIds : TimerFire(c)
  \/ \E c \in OverlapIds, text \in OverlapBodies : BodyComplete(c, text)
  \/ ClearCache(NoPattern)
  \/ Tick

SpecOverlap == Init /\ [][NextOverlap]_vars

(* ------------------- two clients, two base URLs ------------------------ *)

NextClients ==
  \/ \E c \in CallIds, baseUrl \in BaseUrls :
        ClientGet(c, baseUrl, AccountEndpoint, TRUE)
  \/ \E c \in CallIds : FetchResolve(c, 200)
  \/ \E c \in CallIds : TimerFire(c)
  \/ \E c \in CallIds, text \in OverlapBodies : BodyComplete(c, text)
  \/ Tick

SpecClients == Init /\ [][NextClients]_vars

(* --------------------------- clearCache -------------------------------- *)

ClearPatterns == {NoPattern, Pattern(""), Pattern("account"), Pattern("GET:/")}

NextClear ==
  \/ \E c \in CallIds : healthCheck(c)
  \/ \E c \in CallIds : getAccount(c)
  \/ \E c \in CallIds : FetchResolve(c, 200)
  \/ \E c \in CallIds : BodyComplete(c, "{\"id\":\"1\"}")
  \/ \E pattern \in ClearPatterns : ObservedClearCache(pattern)
  \/ Tick

SpecClear == Init /\ [][NextClear]_vars

(* ------------- one request: every answer the server can give ----------- *)

NextRequest ==
  \/ \E c \in RequestIds : healthCheck(c)
  \/ \E c \in RequestIds : getAccount(c)
  \/ \E c \in RequestIds : getContacts(c, 5, 0)
  \/ \E c \in RequestIds, b \in PostBodies : sendEmail(c, b)
  \/ \E c \in RequestIds : sendEvent(c, JObj({<<"event_name", "signup">>}))
  \/ \E c \in RequestIds, status \in Statuses : FetchResolve(c, status)
  \/ \E c \in RequestIds : FetchReject(c)
  \/ \E c \in RequestIds : TimerFire(c)
  \/ \E c \in RequestIds, text \in SuccessBodies \cup ErrorBodies : BodyComplete(c, text)
  \/ \E c \in RequestIds : BodyFail(c)
  \/ \E pattern \in Patterns : ClearCache(pattern)
  \/ Tick

SpecRequest == Init /\ [][NextRequest]_vars

(* ------------------ request with the caller's headers ------------------ *)

\* the headers callers pass in options.headers
HeaderSets ==
  {NoHeaders,
   [h \in {"Authorization"} |-> "Bearer t"],
   [h \in {"Content-Type"} |-> "text/plain"],
   [h \in {"Authorization", "Content-Type"} |->
      IF h = "Authorization" THEN "Bearer t" ELSE "text/plain"]}

\* the options callers pass to request: none, a method, or headers as well
RequestOptions ==
  {<<>>, [method |-> "GET"]}
    \cup {[headers |-> H] : H \in HeaderSets}
    \cup {[method |-> "POST", body |-> "{}", headers |-> H] : H \in HeaderSets}

NextHeaders ==
  \/ \E c \in RequestIds, options \in RequestOptions : Request(c, AccountEndpoint, options)
  \/ \E c \in RequestIds, status \in Statuses : FetchResolve(c, status)
  \/ \E c \in RequestIds : FetchReject(c)
  \/ \E c \in RequestIds : TimerFire(c)
  \/ \E c \in RequestIds, text \in SuccessBodies \cup ErrorBodies : BodyComplete(c, text)
  \/ \E c \in RequestIds : BodyFail(c)
  \/ Tick

SpecHeaders == Init /\ [][NextHeaders]_vars

(* --------------------------- validators.email -------------------------- *)

\* the characters typed into an email field
EmailChars == {"a", "@", ".", " "}

\* the characters that \s matches and trim() strips
Whitespace == {" "}

\* the text of a field: its pieces joined
RECURSIVE Text(_)
Text(pieces) ==
  IF pieces = <<>> THEN "" ELSE pieces[1] \o Text(Tail(pieces))

Char(s, i) == SubSeq(s, i, i)

\* String.prototype.trim
RECURSIVE TrimStart(_)
TrimStart(s) ==
  IF Len(s) > 0 /\ Char(s, 1) \in Whitespace
  THEN TrimStart(SubSeq(s, 2, Len(s))) ELSE s

RECURSIVE TrimEnd(_)
TrimEnd(s) ==
  IF Len(s) > 0 /\ Char(s, Len(s)) \in Whitespace
  THEN TrimEnd(SubSeq(s, 1, Len(s) - 1)) ELSE s

Trim(s) == TrimEnd(TrimStart(s))

\* ^[^\s@]+$ : one or more characters, none of them whitespace or @
NoSpaceNoAt(s) ==
  /\ Len(s) > 0
  /\ \A i \in 1..Len(s) : Char(s, i) \notin Whitespace \cup {"@"}

\* a pattern without the dot: /^[^\s@]+@[^\s@]+$/
emailRegexTest_NoDot(s) ==
  \E i \in 1..Len(s) :
     /\ Char(s, i) = "@"
     /\ NoSpaceNoAt(SubSeq(s, 1, i - 1))
     /\ NoSpaceNoAt(SubSeq(s, i + 1, Len(s)))

\* /^[^\s@]+@[^\s@]+\.[^\s@]+$/.test(s): the @ at i, the dot at j
emailRegexTest(s) ==
  \E i \in 1..Len(s), j \in 1..Len(s) :
     /\ i < j
     /\ Char(s, i) = "@"
     /\ Char(s, j) = "."
     /\ NoSpaceNoAt(SubSeq(s, 1, i - 1))
     /\ NoSpaceNoAt(SubSeq(s, i + 1, j - 1))
     /\ NoSpaceNoAt(SubSeq(s, j + 1, Len(s)))

\* validators.email(email)
validators_email(email) ==
  IF email = "" \/ Trim(email) = "" THEN Throws("Email is required")
  ELSE IF ~emailRegexTest(Trim(email)) THEN Throws("Please enter a valid email address")
  ELSE Returns(Trim(email), JUndef)

\* the user types one more character into the field
TypeChar(ch) ==
  /\ Len(field) < MaxLen
  /\ field' = Append(field, ch)
  /\ UNCHANGED <<client, others, forms, apiError, validated>>

\* validators.email is called on the field's text
ValidateEmail ==
  /\ validated' = [fn |-> "email", input |-> field,
                   result |-> validators_email(Text(field))]
  /\ UNCHANGED <<client, others, forms, apiError, field>>

NextEmail ==
  \/ \E ch \in EmailChars : TypeChar(ch)
  \/ ValidateEmail

SpecEmail == Init /\ [][NextEmail]_vars

(* --------------------------- validators.json --------------------------- *)

\* the pieces typed into a JSON field: each is one token of JSON text, or
\* a blank
JsonTokens == {"{", "}", "[", "]", ",", "\"a\":1", "1", "null", " "}

\* the tokens of a text, the insignificant whitespace between them dropped
Significant(pieces) == SelectSeq(pieces, LAMBDA tok : tok \notin Whitespace)

\* the outcome of parsing a value of t that starts at position i: the
\* position after it and the value, or a SyntaxError
Parsed(next, value) == [ok |-> TRUE, next |-> next, value |-> value]
SyntaxError == [ok |-> FALSE, next |-> 0, value |-> JUndef]

\* the members of an object, from position i up to its closing brace
RECURSIVE ParseMembers(_, _)
ParseMembers(t, i) ==
  IF i + 1 > Len(t) \/ t[i] # "\"a\":1" THEN SyntaxError
  ELSE IF t[i + 1] = "}" THEN Parsed(i + 2, JObj({<<"a", "1">>}))
  ELSE IF t[i + 1] = "," THEN ParseMembers(t, i + 2)
  ELSE SyntaxError

\* a JSON value, and the elements of an array up to its closing bracket
RECURSIVE ParseValue(_, _), ParseElements(_, _)
ParseValue(t, i) ==
  IF i > Len(t) THEN SyntaxError
  ELSE CASE t[i] = "1" -> Parsed(i + 1, JNum)
         [] t[i] = "null" -> Parsed(i + 1, JNull)
         [] t[i] = "{" ->
              IF i + 1 <= Len(t) /\ t[i + 1] = "}" THEN Parsed(i + 2, EmptyObj)
              ELSE ParseMembers(t, i + 1)
         [] t[i] = "[" ->
              IF i + 1 <= Len(t) /\ t[i + 1] = "]" THEN Parsed(i + 2, JArr)
              ELSE ParseElements(t, i + 1)
         [] OTHER -> SyntaxError

ParseElements(t, i) ==
  LET element == ParseValue(t, i)
  IN IF ~element.ok \/ element.next > Len(t) THEN SyntaxError
     ELSE IF t[element.next] = "]" THEN Parsed(element.next + 1, JArr)
     ELSE IF t[element.next] = "," THEN ParseElements(t, element.next + 1)
     ELSE SyntaxError

\* JSON.parse(jsonString): one value and nothing after it
JSON_parse(pieces) ==
  LET t == Significant(pieces)
      r == ParseValue(t, 1)
  IN IF r.ok /\ r.next = Len(t) + 1
     THEN [ok |-> TRUE, value |-> r.value, message |-> ""]
     ELSE [ok |-> FALSE, value |-> JUndef, message |-> "Unexpected token in JSON"]

\* typeof parsed
TypeOf(value) ==
  IF value.t \in {"object", "array", "null"} THEN "object" ELSE value.t

\* an Array.isArray that never says yes
IsArray_Never(value) == FALSE

\* Array.isArray(parsed)
IsArray(value) == value.t = "array"

\* validators.json(jsonString, fieldName): the Error thrown in the try block
\* is caught and wrapped like a SyntaxError
validators_json(pieces, fieldName) ==
  IF Text(pieces) = "" \/ Trim(Text(pieces)) = "" THEN Returns("", JNull)
  ELSE LET parsed == JSON_parse(pieces)
       IN IF ~parsed.ok
          THEN Throws(fieldName \o " contains invalid JSON: " \o parsed.message)
          ELSE IF TypeOf(parsed.value) # "object" \/ parsed.value = JNull
                  \/ IsArray(parsed.value)
          THEN Throws(fieldName \o " contains invalid JSON: " \o fieldName
                        \o " must be a valid JSON object")
          ELSE Returns("", parsed.value)

\* the user types one more token into the field
TypeToken(tok) ==
  /\ Len(field) < MaxTokens
  /\ field' = Append(field, tok)
  /\ UNCHANGED <<client, others, forms, apiError, validated>>

\* validators.json is called on the field's text
ValidateJson(fieldName) ==
  /\ validated' = [fn |-> "json", input |-> field,
                   result |-> validators_json(field, fieldName)]
  /\ UNCHANGED <<client, others, forms, apiError, field>>

NextJson ==
  \/ \E tok \in JsonTokens : TypeToken(tok)
  \/ ValidateJson("Event properties")

SpecJson == Init /\ [][NextJson]_vars

(* --------------- validators.required and validators.maxLength ---------- *)

\* the values a caller can pass: a string, a number or a boolean
JsString(s) == [type |-> "string", str |-> s, num |-> 0, bool |-> FALSE]

JsNumber(n) == [type |-> "number", str |-> "", num |-> n, bool |-> FALSE]

JsBoolean(b) == [type |-> "boolean", str |-> "", num |-> 0, bool |-> b]

\* !value: the empty string, 0 and false are falsy
Not(value) ==
  CASE value.type = "string" -> value.str = ""
    [] value.type = "number" -> value.num = 0
    [] value.type = "boolean" -> ~value.bool

\* value.toString()
toString(value) ==
  CASE value.type = "string" -> value.str
    [] value.type = "number" -> ToString(value.num)
    [] value.type = "boolean" -> IF value.bool THEN "true" ELSE "false"

\* validators.required(value, fieldName), for a value of any type
Required(value, fieldName) ==
  IF Not(value) \/ Trim(toString(value)) = ""
  THEN Throws(fieldName \o " is required")
  ELSE Returns(Trim(toString(value)), JUndef)

\* validators.required(value, fieldName) on the text of a form field
validators_required(value, fieldName) == Required(JsString(value), fieldName)

\* the characters typed into a required field
RequiredChars == {"a", " "}

\* the numbers and booleans passed to validators.required
RequiredNumbers == {0 - 2, 0, 1, 7}

RequiredValues ==
  {JsString(Text(field))} \cup {JsNumber(n) : n \in RequiredNumbers}
    \cup {JsBoolean(b) : b \in BOOLEAN}

\* validators.required is called on the field's text, a number or a boolean
ValidateRequired(value, fieldName) ==
  /\ validated' = [fn |-> "required", input |-> value,
                   result |-> Required(value, fieldName)]
  /\ UNCHANGED <<client, others, forms, apiError, field>>

NextRequired ==
  \/ \E ch \in RequiredChars : TypeChar(ch)
  \/ \E value \in RequiredValues : ValidateRequired(value, "Subject")

SpecRequired == Init /\ [][NextRequired]_vars

\* validators.maxLength(value, maxLen, fieldName)
validators_maxLength(value, maxLen, fieldName) ==
  IF value # "" /\ Len(value) > maxLen
  THEN Throws(fieldName \o " must be " \o ToString(maxLen) \o " characters or less")
  ELSE Returns(value, JUndef)

\* validators.required, then validators.maxLength, in one try block
RequiredMaxLength(value, maxLen, fieldName) ==
  IF validators_required(value, fieldName).threw
  THEN validators_required(value, fieldName)
  ELSE validators_maxLength(value, maxLen, fieldName)

(* ------------------- EmailDialog and EventDialog ----------------------- *)

\* a text of n characters
RECURSIVE Repeat(_, _)
Repeat(ch, n) == IF n = 0 THEN "" ELSE ch \o Repeat(ch, n - 1)

\* what users put into the fields
EmailValues == {"", "a@a", "a@a.a"}
NameValues == {"", " ", "video_played", Repeat("x", 256)}
ContentValues == {"", "<p>Hi</p>"}
JsonValues == {<<>>, <<"{", "}">>, <<"[", "]">>, <<"{">>}
EventJsonValues == {<<>>, <<"[", "]">>}

\* the formData of EmailDialog and of EventDialog
EmailForms ==
  {[to |-> t, subject |-> s, content |-> c] :
     t \in EmailValues, s \in NameValues, c \in ContentValues}
EventForms ==
  {[event_name |-> n, email_id |-> e, contact_properties |-> cp,
    event_properties |-> ep] :
     n \in NameValues, e \in EmailValues, cp \in JsonValues, ep \in EventJsonValues}

\* validateForm of a dialog without the check of the email address
FieldResults_NoEmailCheck(kind, data) ==
  IF kind = "EmailDialog"
  THEN [to |-> Returns(data.to, JUndef),
        subject |-> RequiredMaxLength(data.subject, 255, "Subject"),
        content |-> validators_required(data.content, "Content")]
  ELSE [event_name |-> RequiredMaxLength(data.event_name, 100, "Event name"),
        email_id |-> Returns(data.email_id, JUndef),
        contact_properties |-> validators_json(data.contact_properties, "Contact properties"),
        event_properties |-> validators_json(data.event_properties, "Event properties")]

\* validateForm: what the validators of each field did
FieldResults(kind, data) ==
  IF kind = "EmailDialog"
  THEN [to |-> validators_email(data.to),
        subject |-> RequiredMaxLength(data.subject, 255, "Subject"),
        content |-> validators_required(data.content, "Content")]
  ELSE [event_name |-> RequiredMaxLength(data.event_name, 100, "Event name"),
        email_id |-> validators_email(data.email_id),
        contact_properties |-> validators_json(data.contact_properties, "Contact properties"),
        event_properties |-> validators_json(data.event_properties, "Event properties")]

\* validateForm: the errors object, one message per field whose validator threw
ValidateForm(kind, data) ==
  LET results == FieldResults(kind, data)
  IN [f \in {g \in DOMAIN results : results[g].threw} |-> results[f].message]

\* new Date().toISOString()
IsoDate == "T" \o ToString(now)

\* what handleSubmit passes to submit: formData in EmailDialog, eventData in
\* EventDialog (the optional properties only when they are not blank)
SubmitData(kind, data) ==
  IF kind = "EmailDialog" THEN data
  ELSE LET props == {f \in {"contact_properties", "event_properties"} :
                        Trim(Text(data[f])) # ""}
       IN [f \in {"event_name", "email_id", "event_date"} \cup props |->
             IF f = "event_date" THEN IsoDate
             ELSE IF f \in props THEN Trim(Text(data[f]))
             ELSE Trim(data[f])]

\* the object handed to api.sendEmail / api.sendEvent
JForm(data) == JObj({<<f, data[f]>> : f \in DOMAIN data})

\* handleChange(field): the field's value is set and its error cleared
HandleChange(f, value) ==
  /\ form.kind \in {"EmailDialog", "EventDialog"}
  /\ f \in DOMAIN form.data
  /\ form' = [form EXCEPT !.data[f] = value]
  /\ validationErrors' =
       IF f \in DOMAIN validationErrors /\ validationErrors[f] # ""
       THEN [validationErrors EXCEPT ![f] = ""]
       ELSE validationErrors
  /\ UNCHANGED <<client, others, apiError, field, validated, hook, timers, app>>

\* handleSubmit of a dialog (its button is disabled while isSubmitting)
HandleSubmit ==
  LET errors == ValidateForm(form.kind, form.data)
  IN /\ form.kind \in {"EmailDialog", "EventDialog"}
     /\ ~hook.isSubmitting
     /\ Len(timers) < MaxSubmits
     /\ validationErrors' = errors
     /\ IF DOMAIN errors = {}
        THEN Submit(SubmitData(form.kind, form.data), form.data)
        ELSE UNCHANGED <<hook, timers>>
     /\ UNCHANGED <<client, others, apiError, field, validated, form, app>>

\* the debounce timer fires: its callback runs up to
\* `await submitFunction(formData)`, that is api.sendEmail or api.sendEvent
DebounceFire(i, c) ==
  LET rec == IF form.kind = "EmailDialog"
             THEN Posted("sendEmail", EmailEndpoint, JForm(timers[i].formData))
             ELSE Posted("sendEvent", EventEndpoint, JForm(timers[i].formData))
      started == [hook EXCEPT !.isSubmitting = TRUE, !.error = "", !.success = FALSE]
  IN /\ i \in 1..Len(timers)
     /\ timers[i].state = "pending"
     /\ now >= timers[i].deadline
     /\ CanStart(c)
     /\ call' = [call EXCEPT ![c] = rec]
     /\ IF rec.settled = "pending"
        THEN /\ timers' = [timers EXCEPT ![i].state = "running", ![i].firedAt = now,
                                         ![i].callId = c]
             /\ hook' = started
        ELSE /\ timers' = [timers EXCEPT ![i].state = "done", ![i].firedAt = now,
                                         ![i].callId = c, ![i].promise = "rejected"]
             /\ hook' = Settled(started, rec)
     /\ UNCHANGED <<lastClear, now, CACHE_TTL, timeout, cache, stores,
                    apiError, field, validated, form, validationErrors, app,
                    others>>

\* time passes while forms are in use
FormTick ==
  /\ now < MaxFormTime
  /\ NoTimerDue
  /\ now' = now + 1
  /\ UNCHANGED <<callers, lastClear, CACHE_TTL, timeout, cache, call, stores>>

(* ------------------------ the forms of App.js -------------------------- *)

\* emailForm and eventForm of App.js
AppEmailForms ==
  {[to |-> t, subject |-> "Test Email from Brevo API", content |-> "<p>Hi</p>"] :
     t \in {"", " ", "a@a.a"}}
AppEventForms ==
  {[event_name |-> n, email_id |-> e, contact_properties |-> cp,
    event_properties |-> ep] :
     n \in {"", "video_played"}, e \in {"", "a@a"}, cp \in JsonValues,
     ep \in EventJsonValues}

\* handleApiCall(endpoint, method, body) up to `await fetch(...)`
HandleApiCall(a, endpoint, method, body) ==
  [a EXCEPT !.loading = TRUE, !.error = "",
            !.requests = Append(@, [endpoint |-> endpoint, method |-> method,
                                    body |-> body, state |-> "pending"])]

\* handleEmailSubmit
HandleEmailSubmit ==
  /\ form.kind = "AppEmail"
  /\ app.dialog
  /\ Len(app.requests) < MaxSubmits
  /\ app' = IF form.data.to = ""
            THEN [app EXCEPT !.error = "Recipient email is required"]
            ELSE [HandleApiCall(app, EmailEndpoint, "POST", form.data)
                    EXCEPT !.dialog = FALSE]
  /\ UNCHANGED <<client, others, apiError, field, validated, form, validationErrors,
                 hook, timers>>

\* eventData of handleEventSubmit: the properties parsed when they are not blank
EventData(data) ==
  LET props == {f \in {"contact_properties", "event_properties"} :
                   Trim(Text(data[f])) # ""}
  IN [f \in {"event_name", "email_id", "event_date"} \cup props |->
        IF f = "event_date" THEN IsoDate
        ELSE IF f \in props THEN JSON_parse(data[f]).value
        ELSE data[f]]

\* whether a JSON.parse of handleEventSubmit throws
ParseThrows(data) ==
  \E f \in {"contact_properties", "event_properties"} :
     Trim(Text(data[f])) # "" /\ ~JSON_parse(data[f]).ok

\* handleEventSubmit
HandleEventSubmit ==
  /\ form.kind = "AppEvent"
  /\ app.dialog
  /\ Len(app.requests) < MaxSubmits
  /\ app' = IF form.data.event_name = "" \/ form.data.email_id = ""
            THEN [app EXCEPT !.error = "Event name and email ID are required"]
            ELSE IF ParseThrows(form.data)
            THEN [app EXCEPT !.error = "Invalid JSON format in properties fields"]
            ELSE [HandleApiCall(app, EventEndpoint, "POST", EventData(form.data))
                    EXCEPT !.dialog = FALSE]
  /\ UNCHANGED <<client, others, apiError, field, validated, form, validationErrors,
                 hook, timers>>

\* the user opens the dialog of App.js again
OpenDialog ==
  /\ form.kind \in {"AppEmail", "AppEvent"}
  /\ ~app.dialog
  /\ app' = [app EXCEPT !.dialog = TRUE]
  /\ UNCHANGED <<client, others, apiError, field, validated, form, validationErrors,
                 hook, timers>>

\* handleApiCall after its awaits: the response shown or the error set
ApiCallSettles(r, ok) ==
  /\ r \in 1..Len(app.requests)
  /\ app.requests[r].state = "pending"
  /\ app' = [app EXCEPT !.requests[r].state = "done",
                        !.loading = FALSE,
                        !.response = IF ok THEN "{\"id\":\"1\"}" ELSE "",
                        !.error = IF ok THEN @ ELSE GenericMessage(500)]
  /\ UNCHANGED <<client, others, apiError, field, validated, form, validationErrors,
                 hook, timers>>

(* ----------------------- forms being submitted ------------------------- *)

\* the forms a behaviour starts with: a dialog or a form of App.js, filled in
Forms ==
  {[kind |-> "EmailDialog", data |-> d] : d \in EmailForms}
    \cup {[kind |-> "EventDialog", data |-> d] : d \in EventForms}
    \cup {[kind |-> "AppEmail", data |-> d] : d \in AppEmailForms}
    \cup {[kind |-> "AppEvent", data |-> d] : d \in AppEventForms}

InitForm ==
  /\ InitClient
  /\ InitValidators
  /\ InitOthers
  /\ form \in Forms
  /\ validationErrors = <<>>
  /\ hook \in {NewHook(d) : d \in 1..MaxDebounce}
  /\ timers = <<>>
  /\ app = NewApp

NextForm ==
  \/ HandleSubmit
  \/ \E i \in 1..MaxSubmits, c \in CallIds : DebounceFire(i, c)
  \/ \E c \in CallIds : FetchResolve(c, 200)
  \/ \E c \in CallIds : FetchReject(c)
  \/ \E c \in CallIds : BodyComplete(c, "{\"id\":\"1\"}")
  \/ HandleEmailSubmit
  \/ HandleEventSubmit
  \/ OpenDialog
  \/ \E r \in 1..MaxSubmits, ok \in BOOLEAN : ApiCallSettles(r, ok)
  \/ FormTick

SpecForm == InitForm /\ [][NextForm]_vars

(* ------------------------- bursts of submits --------------------------- *)

\* the addresses typed between two submits
BurstEmails == {"a@a.a", "a@a.aa"}

InitBurst ==
  /\ InitClient
  /\ InitValidators
  /\ InitOthers
  /\ form = [kind |-> "EmailDialog",
             data |-> [to |-> "a@a.a", subject |-> "Hi", content |-> "<p>Hi</p>"]]
  /\ validationErrors = <<>>
  /\ hook \in {NewHook(d) : d \in 1..MaxDebounce}
  /\ timers = <<>>
  /\ app = NewApp

NextBurst ==
  \/ \E t \in BurstEmails : HandleChange("to", t)
  \/ HandleSubmit
  \/ \E i \in 1..MaxSubmits, c \in CallIds : DebounceFire(i, c)
  \/ \E c \in CallIds : FetchResolve(c, 200)
  \/ \E c \in CallIds : FetchReject(c)
  \/ \E c \in CallIds : BodyComplete(c, "{\"id\":\"1\"}")
  \/ FormTick

SpecBurst == InitBurst /\ [][NextBurst]_vars

(* ------------- bursts of submits, with timers that do fire ------------- *)

\* time passes until the timers set by the last submit and the request of
\* its callback have had their time
LateFormTick ==
  /\ now < MaxFormTime + MaxDebounce + timeout
  /\ NoTimerDue
  /\ now' = now + 1
  /\ UNCHANGED <<callers, lastClear, CACHE_TTL, timeout, cache, call, stores>>

\* the request of a timer callback settles
SubmitFunctionSettles ==
  \/ \E c \in CallIds : FetchResolve(c, 200)
  \/ \E c \in CallIds : FetchReject(c)
  \/ \E c \in CallIds : BodyComplete(c, "{\"id\":\"1\"}")

NextBurstFair ==
  \/ \E t \in BurstEmails : HandleChange("to", t)
  \/ now <= MaxFormTime /\ HandleSubmit
  \/ \E i \in 1..MaxSubmits, c \in CallIds : DebounceFire(i, c)
  \/ SubmitFunctionSettles
  \/ LateFormTick

\* the event loop runs every timer that is due, time goes on, and
\* submitFunction settles
SpecBurstFair ==
  /\ InitBurst
  /\ [][NextBurstFair]_vars
  /\ WF_vars(\E i \in 1..MaxSubmits, c \in CallIds : DebounceFire(i, c))
  /\ WF_vars(SubmitFunctionSettles)
  /\ WF_vars(LateFormTick)

(* ------------------- the constants read at module load ----------------- *)

\* the characters of a configured value
EnvChars == {"0", "1", "5", "-", "s"}

DecimalDigits == <<"0", "1", "2", "3", "4", "5", "6", "7", "8", "9">>

IsDigit(ch) == \E i \in 1..Len(DecimalDigits) : DecimalDigits[i] = ch

DigitValue(ch) == (CHOOSE i \in 1..Len(DecimalDigits) : DecimalDigits[i] = ch) - 1

\* the longest prefix of digits
RECURSIVE DigitPrefix(_)
DigitPrefix(text) ==
  IF text = <<>> \/ ~IsDigit(Head(text)) THEN <<>>
  ELSE <<Head(text)>> \o DigitPrefix(Tail(text))

\* the number a sequence of digits denotes
RECURSIVE Decimal(_)
Decimal(digits) ==
  IF digits = <<>> THEN 0
  ELSE 10 * Decimal(SubSeq(digits, 1, Len(digits) - 1))
         + DigitValue(digits[Len(digits)])

\* a JavaScript number: NaN or an integer
NaN == [nan |-> TRUE, n |-> 0]

Num(n) == [nan |-> FALSE, n |-> n]

\* parseInt(process.env.X): NaN for an unset variable and for a text that
\* does not start with an integer, else the integer the text starts with
parseInt(variable) ==
  IF ~variable.set THEN NaN
  ELSE LET negative == variable.text # <<>> /\ Head(variable.text) = "-"
           digits == DigitPrefix(IF negative THEN Tail(variable.text)
                                 ELSE variable.text)
       IN  IF digits = <<>> THEN NaN
           ELSE Num(IF negative THEN 0 - Decimal(digits) ELSE Decimal(digits))

\* number || default: NaN and 0 are falsy
OrDefault(number, default) ==
  IF number.nan \/ number.n = 0 THEN default ELSE number.n

DefaultTimeout == 10000

DefaultCacheTTL == 300000

API_TIMEOUT == OrDefault(parseInt(env.REACT_APP_API_TIMEOUT), DefaultTimeout)

LoadedCacheTTL == OrDefault(parseInt(env.REACT_APP_CACHE_TTL), DefaultCacheTTL)

EnvNames == {"REACT_APP_API_TIMEOUT", "REACT_APP_CACHE_TTL"}

\* nothing is configured and the module is not loaded yet
InitConfig ==
  /\ now = 0
  /\ CACHE_TTL = 0
  /\ timeout = 0
  /\ cache = EmptyCache
  /\ call = [c \in AllIds |-> NewCall]
  /\ stores = EmptyCache
  /\ lastClear = [done |-> FALSE, pattern |-> NoPattern,
                  before |-> EmptyCache, after |-> EmptyCache, inflight |-> {}]
  /\ InitValidators
  /\ InitForms
  /\ InitHooks
  /\ env = [name \in EnvNames |-> Unset]
  /\ loaded = FALSE

\* a variable is added to the .env file, with an empty value
SetEnv(name) ==
  /\ ~loaded
  /\ ~env[name].set
  /\ env' = [env EXCEPT ![name] = Configured(<<>>)]
  /\ UNCHANGED <<client, apiError, field, validated, forms, hooks, loaded>>

\* one more character of a variable's value
TypeEnv(name, ch) ==
  /\ ~loaded
  /\ env[name].set
  /\ Len(env[name].text) < MaxEnvLen
  /\ env' = [env EXCEPT ![name].text = Append(@, ch)]
  /\ UNCHANGED <<client, apiError, field, validated, forms, hooks, loaded>>

\* the module is loaded: its constants are evaluated and apiClient is
\* constructed with the default timeout
LoadModule ==
  /\ ~loaded
  /\ loaded' = TRUE
  /\ CACHE_TTL' = LoadedCacheTTL
  /\ timeout' = API_TIMEOUT
  /\ UNCHANGED <<now, cache, call, stores, lastClear, apiError, field,
                 validated, forms, hooks, env>>

NextConfig ==
  \/ \E name \in EnvNames : SetEnv(name)
  \/ \E name \in EnvNames, ch \in EnvChars : TypeEnv(name, ch)
  \/ LoadModule

SpecConfig == InitConfig /\ [][NextConfig]_vars

(* ----------------------- useApi: execute ------------------------------- *)

\* the record of a getContacts call up to the await inside request: with
\* useCache false, get goes straight to request
Contacts(limit, offset) ==
  RequestStart(Entered("get", "getContacts", ContactsEndpoint(limit, offset), FALSE),
               [method |-> "GET"])

\* abortController.current.abort(): the signal of the previous call's
\* controller is set; no request was built with that signal
AbortPrevious(calls) ==
  IF useApi.abortController # 0
  THEN [calls EXCEPT ![useApi.abortController].aborted = TRUE]
  ELSE calls

\* a new call of execute: its AbortController and the request it awaits
NewExecute(c) ==
  [callId |-> c, aborted |-> FALSE, state |-> "running",
   inflight |-> {i \in 1..Len(executes) : executes[i].state = "running"}]

\* execute(api.getContacts, limit, offset), up to `await apiFunction(...args)`
Execute(c, limit, offset) ==
  /\ CanStart(c)
  /\ call' = [call EXCEPT ![c] = Contacts(limit, offset)]
  /\ executes' = Append(AbortPrevious(executes), NewExecute(c))
  /\ useApi' = [useApi EXCEPT !.abortController = Len(executes) + 1,
                              !.loading = TRUE, !.error = ""]
  /\ UNCHANGED <<lastClear, now, CACHE_TTL, timeout, cache, stores,
                 apiError, field, validated, forms, settings>>

NextExecute ==
  \/ \E c \in CallIds : Execute(c, 5, 0)
  \/ \E c \in CallIds, status \in Statuses : FetchResolve(c, status)
  \/ \E c \in CallIds : FetchReject(c)
  \/ \E c \in CallIds : TimerFire(c)
  \/ \E c \in CallIds, text \in SuccessBodies \cup ErrorBodies : BodyComplete(c, text)
  \/ Tick

SpecExecute == Init /\ [][NextExecute]_vars

(* -------------------- an ApiError built by a caller -------------------- *)

\* the statuses callers construct an ApiError with
ApiStatuses == -1..MaxStatus

\* new ApiError(message, status, details)
NewApiError(message, status, details) ==
  /\ apiError' = ApiError(message, status, details)
  /\ UNCHANGED <<client, others, forms, field, validated>>

\* new ApiError(message): status = 0 and details = {} by default
NewApiErrorDefault(message) ==
  /\ apiError' = ApiError(message, 0, EmptyObj)
  /\ UNCHANGED <<client, others, forms, field, validated>>

NextApiError ==
  \/ \E status \in ApiStatuses : NewApiError("Request failed", status, EmptyObj)
  \/ NewApiErrorDefault("Request failed")

SpecApiError == Init /\ [][NextApiError]_vars

(* ======================= the claims, C1 to C10 ========================= *)

\* the cached gets that have been made
CachedGets == {c \in AllIds : call[c].op = "get" /\ call[c].useCache}

\* C1 as stated: whenever a cached get is made less than a TTL after a get
\* stored its result under the same key, with no clearCache removing the key
\* in between, it returns the value that get stored and issues no request.
C1_ReturnsWhatThatGetStored ==
  \A c \in CachedGets : \A d \in call[c].prior :
     call[c].hit /\ call[c].data = d /\ call[c].nreq = 0

\* C1 amended: such a get issues no network request and returns the value
\* stored last under the key: the value of that earlier get when no other
\* get has stored under the key since.
C1_ReturnsLastStoredValue ==
  \A c \in CachedGets :
     /\ call[c].prior # {} => call[c].hit /\ call[c].nreq = 0 /\ call[c].pc = "done"
     /\ \A d \in call[c].priorLast : call[c].settled = "returned" /\ call[c].data = d

\* a get served from the cache some time after the store
C1_Witness ==
  \E c \in CachedGets :
     call[c].hit /\ call[c].priorLast # {} /\ call[c].seenAge > 0 /\ call[c].nreq = 0

\* C2: a get never returns an entry of age >= TTL; a cached get that finds
\* such an entry deletes it before it issues its request, and a key absent
\* from the cache stays absent until a get stores under it.
C2_ExpiredEntryNeverServed ==
  /\ [](\A c \in AllIds : call[c].hit =>
          call[c].seenAge >= 0 /\ call[c].seenAge < CACHE_TTL)
  /\ [][\A c \in AllIds :
          (call[c].op = "none" /\ call'[c].op = "get" /\ call'[c].useCache
             /\ call'[c].seenAge >= CACHE_TTL)
          => /\ ~call'[c].hit
             /\ CacheKey(call'[c].endpoint) \notin DOMAIN cache'
             /\ call'[c].pc = "fetch"]_vars
  /\ [][\A k \in DOMAIN cache' \ DOMAIN cache :
          \E c \in AllIds : /\ ~call[c].stored /\ call'[c].stored
                            /\ call'[c].settled = "returned"
                            /\ CacheKey(call'[c].endpoint) = k]_vars

\* a cached get has found an expired entry and removed it
C2_Witness ==
  \E c \in CachedGets :
     /\ call[c].seenAge >= CACHE_TTL
     /\ call[c].pc = "fetch"
     /\ CacheKey(call[c].endpoint) \notin DOMAIN cache

\* C3: a cached get that finds no live entry issues exactly one network
\* request, and when it returns the response the cache holds that response
\* under "GET:" + endpoint with the time of the receipt as its timestamp.
C3_MissFetchesOnceAndStores ==
  /\ [](\A c \in CachedGets : ~call[c].hit => call[c].nreq = 1)
  /\ [][\A c \in AllIds :
          (call[c].pc # "done" /\ call'[c].pc = "done"
             /\ call'[c].op = "get" /\ call'[c].useCache
             /\ call'[c].settled = "returned" /\ ~call'[c].hit)
          => /\ ("GET:" \o call'[c].endpoint) \in DOMAIN cache'
             /\ cache'["GET:" \o call'[c].endpoint] =
                  [data |-> call'[c].data, timestamp |-> now]
             /\ call'[c].nreq = 1]_vars

\* an entry whose timestamp is later than the time its request was issued
C3_Witness ==
  \E k \in DOMAIN cache :
     /\ k \in DOMAIN stores
     /\ LET last == stores[k][Len(stores[k])]
        IN /\ cache[k] = [data |-> last[1], timestamp |-> last[2]]
           /\ last[3] < last[2]

\* C4: when request raises inside get, get raises that ApiError unchanged
\* and the cache is what it was before the error arrived.
C4_FailedGetStoresNothing ==
  /\ [](\A c \in AllIds : (call[c].op = "get" /\ call[c].settled = "raised") =>
          /\ call[c].error = call[c].thrown
          /\ call[c].error.name = "ApiError"
          /\ ~call[c].stored)
  /\ [][\A c \in AllIds :
          (call[c].op = "get" /\ call[c].settled = "pending"
             /\ call'[c].settled = "raised")
          => cache' = cache]_vars

\* a cached get has failed while the cache holds other entries and none
\* under its own key
C4_Witness ==
  \E c \in CachedGets :
     /\ call[c].settled = "raised"
     /\ CacheKey(call[c].endpoint) \notin DOMAIN cache
     /\ cache # EmptyCache

\* C5: every getContacts call issues exactly one network request whatever
\* the cache holds, and no step of it changes the cache; a getAccount call
\* made within the TTL window of an earlier store issues none.
C5_ContactsBypassAccountCached ==
  /\ [](\A c \in AllIds :
          /\ call[c].api = "getContacts" =>
               /\ call[c].nreq = 1 /\ ~call[c].hit /\ ~call[c].stored
               /\ call[c].seenAge = -1
          /\ (call[c].api = "getAccount" /\ call[c].prior # {}) =>
               call[c].nreq = 0)
  /\ [][\A c \in AllIds :
          (call'[c].api = "getContacts" /\ call'[c] # call[c]) => cache' = cache]_vars

\* getContacts has returned a response that differs from the entry cached
\* under its own key, which is still there
C5_Witness ==
  \E c \in AllIds :
     /\ call[c].api = "getContacts"
     /\ call[c].settled = "returned"
     /\ CacheKey(call[c].endpoint) \in DOMAIN cache
     /\ cache[CacheKey(call[c].endpoint)].data # call[c].data

\* C6 as stated: every post issues a network request with method POST.
C6_PostAlwaysIssuesRequest ==
  \A c \in AllIds : call[c].op = "post" => call[c].nreq = 1 /\ call[c].method = "POST"

\* C6 amended: a post whose body JSON.stringify can serialise issues one
\* network request with method POST and the serialised body, a post whose
\* body it cannot serialise issues none, and no step of a post changes the
\* cache or is served from it.
C6_PostBypassesCache ==
  /\ [](\A c \in AllIds : call[c].op = "post" =>
          /\ ~call[c].hit /\ ~call[c].stored /\ call[c].seenAge = -1
          /\ IF call[c].error.name = "TypeError"
             THEN call[c].nreq = 0
             ELSE call[c].nreq = 1 /\ call[c].method = "POST" /\ call[c].body = "{}")
  /\ [][\A c \in AllIds :
          (call'[c].op = "post" /\ call'[c] # call[c]) => cache' = cache]_vars

\* a post to an endpoint has returned while a GET response of that endpoint
\* is cached
C6_Witness ==
  \E c \in AllIds :
     /\ call[c].op = "post"
     /\ call[c].settled = "returned"
     /\ CacheKey(call[c].endpoint) \in DOMAIN cache

\* C7: clearCache() leaves the cache empty; clearCache(pattern) removes the
\* entries whose key contains pattern and leaves every other entry as it was.
C7_ClearCacheRemovesMatching ==
  lastClear.done =>
    IF lastClear.pattern.null
    THEN DOMAIN lastClear.after = {}
    ELSE /\ DOMAIN lastClear.after =
              {k \in DOMAIN lastClear.before : ~Includes(k, lastClear.pattern.s)}
         /\ \A k \in DOMAIN lastClear.after : lastClear.after[k] = lastClear.before[k]

\* clearCache("account") has removed the account entry and kept another
C7_Witness ==
  /\ lastClear.done
  /\ lastClear.pattern = Pattern("account")
  /\ DOMAIN lastClear.before = {"GET:/api/account", "GET:/"}
  /\ DOMAIN lastClear.after = {"GET:/"}

HttpFailures ==
  {c \in AllIds : call[c].net = "complete" /\ call[c].status \notin 200..299}

\* the message C9 states for a body: its message field, else the generic one
StatedMessage(status, text) ==
  IF text = "{\"message\":\"slow down\"}" THEN "slow down"
  ELSE "HTTP error! status: " \o ToString(status)

\* C9 as stated: for every non-2xx response, whatever its body, request
\* raises an ApiError with the response's status and the stated message.
C9_HttpErrorKeepsStatus ==
  \A c \in HttpFailures :
     /\ call[c].settled = "raised"
     /\ call[c].thrown.name = "ApiError"
     /\ call[c].thrown.status = call[c].status
     /\ call[c].thrown.message = StatedMessage(call[c].status, call[c].received)

\* C10: a non-2xx response whose body is not JSON makes request raise an
\* ApiError with the response's status, the generic message and details {}.
C10_MalformedErrorBody ==
  \A c \in HttpFailures :
     call[c].received = "<html>Bad Gateway</html>" =>
        /\ call[c].settled = "raised"
        /\ call[c].thrown =
             [name |-> "ApiError",
              message |-> "HTTP error! status: " \o ToString(call[c].status),
              status |-> call[c].status,
              details |-> JObj({})]

\* a 500 response with an HTML body has been turned into an ApiError
C10_Witness ==
  \E c \in HttpFailures :
     /\ call[c].received = "<html>Bad Gateway</html>"
     /\ call[c].status = 500
     /\ call[c].error.status = 500

(* ======================= the claims, C11 to C20 ======================== *)

\* the calls whose fetch rejected before any HTTP response, without an abort
TransportFailures ==
  {c \in AllIds : call[c].net = "failed" /\ call[c].status = 0 /\ ~call[c].aborted}

\* C11: when fetch rejects with no HTTP response and no timeout abort,
\* request raises an ApiError with status 0, for which isNetworkError holds,
\* and whose details carry the rejection's message as originalError.
C11_TransportFailureIsStatus0 ==
  \A c \in TransportFailures :
     /\ call[c].settled = "raised"
     /\ call[c].thrown.name = "ApiError"
     /\ call[c].thrown.status = 0
     /\ isNetworkError(call[c].thrown)
     /\ call[c].thrown.details = JObj({<<"originalError", "Failed to fetch">>})
     /\ call[c].nreq = 1

\* a sendEmail call whose fetch was refused
C11_Witness ==
  \E c \in TransportFailures :
     call[c].api = "sendEmail" /\ call[c].error.status = 0 /\ call[c].timer = "cleared"

\* the calls that received the status line of an HTTP response
GotResponse == {c \in AllIds : call[c].net \in {"headers", "complete"} \/ call[c].status # 0}

\* C12 as stated: whenever an HTTP response arrived, whatever its status and
\* body, an ApiError that request raises carries a non-zero status.
C12_Status0OnlyWithoutResponse ==
  \A c \in GotResponse :
     (call[c].settled = "raised" /\ call[c].thrown.name = "ApiError")
        => call[c].thrown.status # 0

\* C13: for every integer status of an ApiError the getters are
\* isNetworkError = (s = 0), isClientError = (400 <= s < 500), isServerError
\* = (s >= 500), isTimeout = (s = 408), isRateLimit = (s = 429); so at most
\* one of the first three holds and the last two each imply isClientError.
C13_GettersClassifyStatus ==
  apiError.name = "ApiError" =>
    LET s == apiError.status
        N == isNetworkError(apiError)
        C == isClientError(apiError)
        S == isServerError(apiError)
    IN /\ N <=> (s = 0)
       /\ C <=> (s \in 400..499)
       /\ S <=> (s \in 500..(MaxStatus + 1))
       /\ isTimeout(apiError) <=> (s = 408)
       /\ isRateLimit(apiError) <=> (s = 429)
       /\ ~(N /\ C) /\ ~(N /\ S) /\ ~(C /\ S)
       /\ isTimeout(apiError) => C
       /\ isRateLimit(apiError) => C

\* an ApiError with status 500 is a server error and no client error
C13_Witness ==
  /\ apiError.name = "ApiError"
  /\ apiError.status = 500
  /\ isServerError(apiError)
  /\ ~isClientError(apiError)

\* C14: no call of request, get, post or of a convenience operation issues
\* more than one network request; once its attempt has failed the call has
\* raised what request threw, and the step that raises issues no request.
C14_NoRetries ==
  /\ [](\A c \in AllIds :
          /\ call[c].nreq <= 1
          /\ (\/ call[c].net \in {"failed", "aborted"}
              \/ (call[c].net = "complete" /\ ~ResponseOk(call[c].status)))
             => /\ call[c].settled = "raised"
                /\ call[c].pc = "done"
                /\ call[c].error = call[c].thrown
                /\ call[c].nreq = 1)
  /\ [][\A c \in AllIds :
          call[c].pc \in {"fetch", "body"} =>
             call'[c].nreq = call[c].nreq /\ call'[c].pc \in {"fetch", "body", "done"}]_vars

\* a getAccount call has failed on a 500 response after one request
C14_Witness ==
  \E c \in AllIds :
     /\ call[c].api = "getAccount"
     /\ call[c].settled = "raised"
     /\ call[c].error.status = 500
     /\ call[c].nreq = 1

\* C15: in every state in which a call has returned or raised, the timer
\* of its request is not pending; a timer fires only for a request whose
\* fetch is still awaited.
C15_TimerCancelledOnExit ==
  /\ [](\A c \in AllIds : call[c].settled # "pending" => call[c].timer # "pending")
  /\ [][\A c \in AllIds :
          (call[c].timer # "fired" /\ call'[c].timer = "fired")
             => call[c].settled = "pending" /\ call[c].pc = "fetch"]_vars

\* a request has raised after its fetch was refused, its timer cleared in
\* the catch block
C15_Witness ==
  \E c \in AllIds :
     /\ call[c].settled = "raised"
     /\ call[c].net = "failed"
     /\ call[c].status = 0
     /\ call[c].timer = "cleared"

\* C16 as stated: the headers of the issued network call are the default
\* Content-Type: application/json merged with the headers the caller passed
\* in options.headers, the caller's value winning.
C16_HeadersMergedWithDefault ==
  \A c \in AllIds :
     call[c].nreq > 0 =>
        call[c].headers = Spread(DefaultHeaders, call[c].callerHeaders)

\* the number of characters of s that are in `chars`
RECURSIVE CountOf(_, _)
CountOf(s, chars) ==
  IF Len(s) = 0 THEN 0
  ELSE (IF Char(s, 1) \in chars THEN 1 ELSE 0) + CountOf(SubSeq(s, 2, Len(s)), chars)

\* s without its leading and trailing whitespace: its longest piece that
\* neither starts nor ends with whitespace
Trimmed(s) ==
  IF CountOf(s, Whitespace) = Len(s) THEN ""
  ELSE LET a == CHOOSE i \in 1..Len(s) :
                  /\ Char(s, i) \notin Whitespace
                  /\ \A k \in 1..(i - 1) : Char(s, k) \in Whitespace
           b == CHOOSE i \in 1..Len(s) :
                  /\ Char(s, i) \notin Whitespace
                  /\ \A k \in (i + 1)..Len(s) : Char(s, k) \in Whitespace
       IN SubSeq(s, a, b)

\* the shape local@domain.tld: one @, no whitespace, something before the
\* @, and after it a dot with something on both of its sides
HasEmailShape(s) ==
  /\ CountOf(s, {"@"}) = 1
  /\ CountOf(s, Whitespace) = 0
  /\ LET at == CHOOSE i \in 1..Len(s) : Char(s, i) = "@"
     IN /\ at > 1
        /\ \E d \in (at + 2)..(Len(s) - 1) : Char(s, d) = "."

\* C19: validators.email fails with "Email is required" when the value is
\* empty or whitespace-only, fails when the trimmed value has not the shape
\* local@domain.tld, and otherwise returns the trimmed value.
C19_ValidateEmail ==
  validated.fn = "email" =>
    LET email == Text(validated.input)
        r == validated.result
    IN IF CountOf(email, Whitespace) = Len(email)
       THEN r.threw /\ r.message = "Email is required"
       ELSE IF ~HasEmailShape(Trimmed(email))
       THEN r.threw
       ELSE ~r.threw /\ r.value = Trimmed(email)

\* " a@a.a" has been accepted and returned without the leading blank
C19_Witness ==
  /\ validated.fn = "email"
  /\ Text(validated.input) = " a@a.a"
  /\ ~validated.result.threw
  /\ validated.result.value = "a@a.a"

\* the texts of a JSON object: an opening brace, members separated by
\* commas or nothing, a closing brace
IsObjectText(t) ==
  /\ Len(t) >= 2
  /\ t[1] = "{"
  /\ t[Len(t)] = "}"
  /\ \/ Len(t) = 2
     \/ /\ Len(t) % 2 = 1
        /\ \A i \in 2..(Len(t) - 1) :
              t[i] = (IF i % 2 = 0 THEN "\"a\":1" ELSE ",")

\* C20: validators.json returns null for an empty or whitespace-only text;
\* a non-empty text makes it fail unless the text is that of a JSON object
\* (not an array, null or a scalar), and then it returns the parsed object.
C20_ValidateJsonObject ==
  validated.fn = "json" =>
    LET t == Significant(validated.input)
        r == validated.result
    IN IF t = <<>>
       THEN ~r.threw /\ r.json = JNull
       ELSE IF IsObjectText(t)
       THEN /\ ~r.threw
            /\ r.json = (IF Len(t) = 2 THEN JObj({}) ELSE JObj({<<"a", "1">>}))
       ELSE r.threw

\* the text {"a":1} has been parsed and its object returned
C20_Witness ==
  /\ validated.fn = "json"
  /\ validated.input = <<"{", "\"a\":1", "}">>
  /\ validated.result = Returns("", JObj({<<"a", "1">>}))

\* whether every field validator of a dialog passes on its formData
DialogValid(kind, data) ==
  IF kind = "EmailDialog"
  THEN /\ ~validators_email(data.to).threw
       /\ ~validators_required(data.subject, "Subject").threw
       /\ ~validators_maxLength(data.subject, 255, "Subject").threw
       /\ ~validators_required(data.content, "Content").threw
  ELSE /\ ~validators_required(data.event_name, "Event name").threw
       /\ ~validators_maxLength(data.event_name, 100, "Event name").threw
       /\ ~validators_email(data.email_id).threw
       /\ ~validators_json(data.contact_properties, "Contact properties").threw
       /\ ~validators_json(data.event_properties, "Event properties").threw

\* whether a form of App.js has its required fields and parseable properties
AppValid(kind, data) ==
  IF kind = "AppEmail" THEN data.to # ""
  ELSE /\ data.event_name # ""
       /\ data.email_id # ""
       /\ \A f \in {"contact_properties", "event_properties"} :
             Trim(Text(data[f])) = "" \/ JSON_parse(data[f]).ok

\* C17: handleSubmit of a dialog calls submit only when every field
\* validator passed and the error map it set is empty, and api.sendEmail /
\* api.sendEvent are called for such submits only; handleEmailSubmit and
\* handleEventSubmit of App.js issue a request only when the required
\* fields are not empty and the properties fields are blank or parse.
C17_ValidationBlocksCall ==
  /\ [](/\ \A i \in 1..Len(timers) : DialogValid(form.kind, timers[i].source)
        /\ \A c \in AllIds : call[c].op # "none" =>
              \E i \in 1..Len(timers) : timers[i].callId = c
        /\ app.requests # <<>> => AppValid(form.kind, form.data))
  /\ [][/\ Len(timers') > Len(timers) =>
              DialogValid(form.kind, form.data) /\ DOMAIN validationErrors' = {}
        /\ Len(app'.requests) > Len(app.requests) => AppValid(form.kind, form.data)
        /\ (form.kind \in {"EmailDialog", "EventDialog"}
              /\ ~DialogValid(form.kind, form.data))
             => timers' = timers /\ call' = call
        /\ (form.kind \in {"AppEmail", "AppEvent"} /\ ~AppValid(form.kind, form.data))
             => app'.requests = app.requests]_vars

\* handleSubmit of the EventDialog has found an array in the contact
\* properties: the error is set, nothing is submitted and no call made
C17_Witness ==
  /\ form.kind = "EventDialog"
  /\ DOMAIN validationErrors = {"contact_properties"}
  /\ timers = <<>>
  /\ \A c \in AllIds : call[c].op = "none"
  /\ now > 0

\* submit call i is followed by another one less than debounceMs later
Superseded(i) ==
  i < Len(timers) /\ timers[i + 1].at - timers[i].at < hook.debounceMs

\* no submit call is made up to the time the timer of call i is due
Quiet(i) ==
  i = Len(timers) \/ timers[i + 1].at > timers[i].deadline

\* C18 as stated: in a burst of submit calls, each less than debounceMs
\* after the previous one, only the last call invokes submitFunction, and
\* it does so once debounceMs has elapsed after it, whatever calls follow
\* the burst.
C18_BurstInvokesOnce ==
  \A i \in 1..Len(timers) :
     IF Superseded(i)
     THEN timers[i].state = "cleared" /\ timers[i].callId = 0
     ELSE /\ timers[i].state # "cleared"
          /\ now > timers[i].deadline =>
               /\ timers[i].state \in {"running", "done"}
               /\ timers[i].firedAt = timers[i].at + hook.debounceMs

\* C18 amended: a submit call followed by another one within less than
\* debounceMs never invokes submitFunction; the last call of a burst, when
\* no call is made up to the time its timer is due, invokes it once,
\* debounceMs after the call and with the formData of that call.
C18_SubmitDebounced ==
  /\ \A i \in 1..Len(timers) :
        /\ Superseded(i) => timers[i].state = "cleared" /\ timers[i].callId = 0
        /\ (Quiet(i) /\ ~Superseded(i)) =>
              IF now < timers[i].deadline THEN timers[i].state = "pending"
              ELSE timers[i].state = "pending" \/
                   /\ timers[i].state \in {"running", "done"}
                   /\ timers[i].firedAt = timers[i].at + hook.debounceMs
                   /\ call[timers[i].callId].api = "sendEmail"
                   /\ call[timers[i].callId].body =
                        JsonStringify(JForm(timers[i].formData)).text
        /\ (Quiet(i) /\ ~Superseded(i) /\ now > timers[i].deadline) =>
              timers[i].state \in {"running", "done"}
  /\ \A c \in AllIds : call[c].op # "none" =>
        Cardinality({i \in 1..Len(timers) : timers[i].callId = c}) = 1

\* two submits in a burst with different addresses: the first was cleared
\* and the second has been sent
C18_Witness ==
  /\ Len(timers) = 2
  /\ Superseded(1)
  /\ timers[1].formData.to = "a@a.a"
  /\ timers[2].formData.to = "a@a.aa"
  /\ timers[1].state = "cleared"
  /\ timers[2].state = "done"
  /\ call[1].settled = "returned"
  /\ call[2].op = "none"

(* ------------------------------- C21 ----------------------------------- *)

\* C21: validators.required, for every value (strings, numbers including 0,
\* booleans), throws if the value coerced to a string is empty or only
\* whitespace, and otherwise returns that string trimmed.
C21_RequiredAfterCoercion ==
  validated.fn = "required" =>
    IF Trim(toString(validated.input)) = ""
    THEN validated.result.threw
    ELSE /\ ~validated.result.threw
         /\ validated.result.value = Trim(toString(validated.input))

\* validators.required was called with the number 0 and threw, although "0"
\* is neither empty nor whitespace
C21_ZeroRejected ==
  /\ validated.fn = "required"
  /\ validated.input = JsNumber(0)
  /\ validated.result.threw

(* ------------------------------- C22 ----------------------------------- *)

\* a configured value that is an integer: digits, after an optional sign
IsInteger(variable) ==
  /\ variable.set
  /\ LET digits == IF variable.text # <<>> /\ Head(variable.text) = "-"
                   THEN Tail(variable.text) ELSE variable.text
     IN  digits # <<>> /\ \A i \in 1..Len(digits) : IsDigit(digits[i])

IntegerOf(variable) ==
  IF Head(variable.text) = "-" THEN 0 - Decimal(Tail(variable.text))
  ELSE Decimal(variable.text)

\* C22: for every integer configured for REACT_APP_API_TIMEOUT or
\* REACT_APP_CACHE_TTL the effective timeout / TTL is that integer, and the
\* defaults 10000 and 300000 apply when nothing is configured.
C22_ConfiguredValueIsEffective ==
  loaded =>
    /\ IsInteger(env.REACT_APP_API_TIMEOUT) =>
         timeout = IntegerOf(env.REACT_APP_API_TIMEOUT)
    /\ IsInteger(env.REACT_APP_CACHE_TTL) =>
         CACHE_TTL = IntegerOf(env.REACT_APP_CACHE_TTL)
    /\ ~env.REACT_APP_API_TIMEOUT.set => timeout = DefaultTimeout
    /\ ~env.REACT_APP_CACHE_TTL.set => CACHE_TTL = DefaultCacheTTL

\* REACT_APP_CACHE_TTL=0 was configured and the module runs with 300000
C22_ZeroIgnored ==
  /\ loaded
  /\ env.REACT_APP_CACHE_TTL = Configured(<<"0">>)
  /\ CACHE_TTL = DefaultCacheTTL

(* --------------------------- C23 and C30 ------------------------------- *)

\* execute call i has settled
ExecuteSettled(i) == executes[i].state \in {"resolved", "rejected"}

\* what useApi shows when the outcome of execute call i is applied
Reflects(i) ==
  LET rec == call[executes[i].callId]
  IN IF rec.settled = "returned"
     THEN useApi.data = rec.data /\ useApi.error = ""
     ELSE useApi.data = JNull /\ useApi.error = ExecuteErrorMessage(rec.error)

\* C23: when execute is called while an earlier execute call is in flight,
\* the earlier call is cancelled and its outcome is never applied: after
\* both have settled, data and error reflect the later call.
C23_LaterExecuteWins ==
  \A i \in 1..Len(executes) :
    ( /\ i = Len(executes)
      /\ executes[i].inflight # {}
      /\ \A j \in 1..Len(executes) : ExecuteSettled(j) ) => Reflects(i)

\* the earlier of two overlapping execute calls settled last
C23_EarlierSettledLast ==
  /\ Len(executes) = 2
  /\ executes[2].inflight = {1}
  /\ ExecuteSettled(1) /\ ExecuteSettled(2)
  /\ executes[1].aborted
  /\ call[1].settled = "returned" /\ call[2].settled = "returned"
  /\ call[1].data # call[2].data
  /\ useApi.data = call[1].data

\* C30: loading is true in every state in which an execute call has started
\* and not settled, and false in every state in which none is in flight.
C30_LoadingIffInFlight ==
  useApi.loading <=> (\E i \in 1..Len(executes) : executes[i].state = "running")

\* one execute call has settled and loading is false while another is still
\* in flight
C30_LoadingFalseInFlight ==
  /\ Len(executes) = 2
  /\ ExecuteSettled(1)
  /\ executes[2].state = "running"
  /\ ~useApi.loading

(* ------------------------------- C24 ----------------------------------- *)

\* C24: every call of request settles within the configured timeout of being
\* issued, with the parsed body or with an ApiError, also when the status
\* and headers have arrived and the body does not complete.
C24_SettlesWithinTimeout ==
  \A c \in AllIds :
    (call[c].nreq > 0 /\ call[c].settled = "pending") =>
       now <= call[c].issuedAt + timeout

\* the headers have arrived, the timer is cleared, and the call is still
\* waiting for the body after its timeout has passed
C24_BodyOutlivesTimeout ==
  \E c \in AllIds :
    /\ call[c].pc = "body"
    /\ call[c].timer = "cleared"
    /\ call[c].settled = "pending"
    /\ now > call[c].issuedAt + timeout

(* ------------------------------- C25 ----------------------------------- *)

\* C25: every failure of request, get or post reaches the caller as an
\* ApiError, never as a raw exception, also when the body of a post cannot
\* be serialized to JSON.
C25_EveryFailureIsApiError ==
  \A c \in AllIds :
    call[c].settled = "raised" => call[c].error.name = "ApiError"

\* a post raised the TypeError of JSON.stringify and issued no request
C25_RawTypeError ==
  \E c \in AllIds :
    /\ call[c].op = "post"
    /\ call[c].settled = "raised"
    /\ call[c].error.name = "TypeError"
    /\ call[c].nreq = 0

(* ------------------------------- C26 ----------------------------------- *)

\* C26: every promise returned by useApiForm.submit eventually settles,
\* provided submitFunction settles, also the promise of a submit call that
\* is superseded by another one before its debounce delay has elapsed.
C26_EverySubmitSettles ==
  \A i \in 1..MaxSubmits :
    [](Len(timers) >= i => <>(Len(timers) >= i /\ timers[i].promise # "pending"))

\* the promise of a submit call whose timer was cleared is still pending
\* after the call that superseded it has resolved
C26_SupersededStaysPending ==
  /\ Len(timers) = 2
  /\ timers[1].state = "cleared"
  /\ timers[1].promise = "pending"
  /\ timers[2].promise = "resolved"

(* ------------------------------- C27 ----------------------------------- *)

\* C27: a value served from the cache by get on an ApiClient was fetched
\* from that client's own base URL: two clients with different base URLs
\* never return each other's cached responses for the same endpoint path.
C27_CacheHitFromOwnBaseUrl ==
  \A c \in AllIds :
    call[c].hit => call[c].from = call[c].baseUrl \o call[c].endpoint

\* get on the client of one base URL returned, without a request, what the
\* client of the other base URL had fetched
C27_ServedOtherClientsResponse ==
  /\ call[1].baseUrl = API_BASE_URL
  /\ call[1].stored
  /\ call[2].baseUrl # API_BASE_URL
  /\ call[2].endpoint = call[1].endpoint
  /\ call[2].hit /\ call[2].nreq = 0
  /\ call[2].data = call[1].data
  /\ call[2].from = call[1].url

(* ------------------------------- C28 ----------------------------------- *)

\* C28: a cacheable get that was in flight when clearCache ran (and whose
\* key it cleared) does not store its response: the key stays absent until a
\* get started after the clear succeeds.
C28_InvalidationNotUndone ==
  \A c \in lastClear.inflight :
    /\ ~call[c].stored
    /\ \A d \in AllIds \ lastClear.inflight : ~call[d].stored =>
          CacheKey(call[c].endpoint) \notin DOMAIN cache

\* getAccount was in flight when clearCache() ran, no other get was made,
\* and the entry is back in the cache
C28_StoredAfterClear ==
  /\ lastClear.done
  /\ lastClear.inflight = {1}
  /\ call[1].stored
  /\ call[2].op = "none"
  /\ CacheKey(call[1].endpoint) \in DOMAIN cache

(* ------------------------------- C29 ----------------------------------- *)

\* the gets that went to the network
Missed(c) == call[c].op = "get" /\ ~call[c].hit

\* C29 as claimed: each overlapping get issues its own request, and the
\* cache never replaces a stored response with the response of a request
\* issued earlier than the one that produced the stored response.
C29_NeverReplacedByEarlierRequest ==
  /\ \A c \in AllIds : Missed(c) => call[c].nreq = 1
  /\ \A k \in DOMAIN stores : \A i \in 1..(Len(stores[k]) - 1) :
        stores[k][i][3] <= stores[k][i + 1][3]

\* C29: each overlapping cacheable get issues its own request and stores its
\* response when it succeeds; the entry is the response stored last, that of
\* the request that completed last, whenever that request was issued.
C29_LastCompletedWins ==
  /\ \A c \in AllIds : Missed(c) => call[c].nreq = 1
  /\ \A c \in AllIds :
        (Missed(c) /\ call[c].useCache /\ call[c].settled = "returned") =>
           call[c].stored
  /\ \A k \in DOMAIN cache :
        /\ StoresTo(k) # <<>>
        /\ cache[k].data = stores[k][Len(stores[k])][1]
        /\ cache[k].timestamp = stores[k][Len(stores[k])][2]
  /\ \A k \in DOMAIN stores : \A i \in 1..(Len(stores[k]) - 1) :
        stores[k][i][2] <= stores[k][i + 1][2]

\* two overlapping getAccount calls have succeeded; the one issued first
\* completed last and the entry holds its response
C29_Witness ==
  /\ call[1].stored /\ call[2].stored
  /\ call[1].endpoint = call[2].endpoint
  /\ call[1].data # call[2].data
  /\ Len(StoresTo(CacheKey(call[1].endpoint))) = 2
  /\ stores[CacheKey(call[1].endpoint)][1][3] > stores[CacheKey(call[1].endpoint)][2][3]
  /\ cache[CacheKey(call[1].endpoint)].data = call[1].data

====
